---- MODULE Spec2Model ----
(***************************************************************************)
(* Registration flow of sochma-bot: the users collection, the              *)
(* RegistrationFSM operations, the RegistrationHandler methods that wrap   *)
(* them and the BotService dispatcher (handleMessage, handleCallbackQuery).*)
(* Every await of the code is a step boundary: a handler is a process that *)
(* reads the record (findOne), decides, and writes it back (save) in a     *)
(* later step, so that handlers of the same sender interleave.             *)
(***************************************************************************)
EXTENDS Integers, Sequences, FiniteSets, TLC

VARIABLES
    users,        \* the users collection: a set of documents
    h,            \* the handler processes
    script,       \* how many events of the end-to-end scenario were delivered
    memoryUsers,  \* MemoryStorage.users: the users kept in memory, by id
    now,          \* the clock, in days
    stats,        \* MemoryStorage.stats: totalUsers and activeUsers
    syncInProgress,  \* MemoryStorage.syncInProgress
    isConnected,  \* databaseService.isConnected
    syncPasses,   \* the sync passes under way: the users each has synced
    syncLogged,   \* what the last sync pass logged when it ended
    requests,     \* rateLimit: the Map of the times of each user's requests
    forwarded,    \* the times at which rateLimit called next(), by user
    lastRejected, \* the time of each user's last 'Rate limit exceeded' reply
    conversations, \* the conversations collection: a set of documents
    ctx,          \* the updates the Telegraf bot is handling, by process
    profile       \* user.profile of the sender, as stored

\* The periodic sync of MemoryStorage.
syncVars == <<syncInProgress, isConnected, syncPasses, syncLogged>>

\* The state of MemoryStorage besides its Map of users.
storageVars == <<stats, syncVars>>

\* trackConversation and the handlers that use ctx.conversation.
conversationVars == <<conversations, ctx, profile>>

\* The rateLimit middleware.
limiterVars == <<requests, forwarded, lastRejected>>

\* The state of the Telegraf bot's middleware.
telegrafVars == <<limiterVars, conversationVars>>

vars == <<users, h, script, memoryUsers, now, storageVars, telegrafVars>>

\* Number of updates of one sender that are being handled at the same time.
NumProcs == 2

Procs == 1..NumProcs

\* Telegram ids of the senders of the model.
Senders == {1}

\* A second sender, for what is kept by user.
OtherSender == 3

\* Telegram id of the bot, the sender of every message that carries buttons.
BotSender == 2

\* An update without 'from'.
NoSender == 0

(***************************************************************************)
(* Strings the code inspects character by character are sequences of       *)
(* one-character strings.                                                   *)
(***************************************************************************)
Digits == {"0", "1", "2", "3", "4", "5", "6", "7", "8", "9"}

Whitespace == {" ", "\t", "\n"}

\* "+1 2": cleans to "+12", a valid phone number; a valid full name.
TextPhone == <<"+", "1", " ", "2">>

\* " a": no phone number, and a full name of trimmed length 1.
TextShort == <<" ", "a">>

\* "/start"
TextStart == <<"/", "s", "t", "a", "r", "t">>

\* "/register"
TextRegister == <<"/", "r", "e", "g", "i", "s", "t", "e", "r">>

\* Texts handed to the handlers directly.
Texts == {TextPhone, TextShort}

\* Texts of inbound messages.
MsgTexts == Texts \cup {TextRegister, TextStart}

NoText == << >>

\* Payloads of role callbacks after 'role_'.
Roles == {"buyer", "investor", "both"}

RoleInputs == Roles \cup {"admin"}

\* callback_data of inbound callback queries, split at the 'role_' prefix the
\* code tests with startsWith and removes with replace.
CallbackData ==
    {[prefix |-> "role_", rest |-> r] : r \in RoleInputs} \cup
    {[prefix |-> "", rest |-> d] :
        d \in {"complete_registration", "start_registration", "get_stats"}}

NoData == [prefix |-> "", rest |-> ""]

NoRole == "null"

(***************************************************************************)
(* MemoryStorage: the Map of the users seen, with the fields of the        *)
(* Telegram user and lastSeen; it holds no field of the registration.      *)
(***************************************************************************)
\* this.users = new Map()
NoMemory == [uid \in {} |-> [lastSeen |-> 0]]

\* this.users.set(userId, {..., lastSeen: new Date(), ...})
MemorySet(mem, userId, lastSeen) ==
    [uid \in DOMAIN mem \cup {userId} |->
        IF uid = userId THEN [lastSeen |-> lastSeen] ELSE mem[uid]]

\* this.users.delete(userId), for the ids of a set
MemoryDelete(mem, userIds) == [uid \in DOMAIN mem \ userIds |-> mem[uid]]

\* this.stats = { totalUsers: 0, activeUsers: 0, messagesProcessed: 0 }
NoStats == [totalUsers |-> 0, activeUsers |-> 0]

\* this.stats.activeUsers = this.users.size
activeUsersOf(st, mem) == [st EXCEPT !.activeUsers = Cardinality(DOMAIN mem)]

\* The stats after setUser: if (!existingUser) this.stats.totalUsers++, then
\* this.stats.activeUsers = this.users.size
statsAfterSetUser(st, mem, userId) ==
    activeUsersOf([st EXCEPT !.totalUsers =
                      IF userId \in DOMAIN mem THEN @ ELSE @ + 1],
                  MemorySet(mem, userId, 0))

\* The fields of a conversation the handlers read and write; id 0: null.
NoConversation ==
    [id |-> 0, telegramId |-> 0, type |-> "none", state |-> "idle",
     step |-> 0, isActive |-> FALSE]

\* user.profile: the four fields of the profile setup, and the property an
\* index outside the fields would name.
fields == <<"company", "industry", "location", "bio">>

NoProfile ==
    [f \in {fields[i] : i \in DOMAIN fields} \cup {"undefined"} |-> << >>]

\* A write a handler awaits: Conversation.create, conversation.save() with
\* the paths it sets ("keep" and -1: path not modified), user.save().
Write(kind, id, type, state, step, field, value) ==
    [kind |-> kind, id |-> id, type |-> type, state |-> state, step |-> step,
     field |-> field, value |-> value]

\* An update the Telegraf bot is not handling.
IdleCtx ==
    [pc |-> "idle", from |-> 0, updateType |-> "none", text |-> << >>,
     conversation |-> NoConversation, writes |-> << >>, logged |-> "none"]

\* const requests = new Map(); no update has been forwarded or rejected.
\* No conversation is stored and no update is being handled.
InitTelegraf ==
    /\ conversations = {}
    /\ ctx = [p \in Procs |-> IdleCtx]
    /\ profile = NoProfile
    /\ requests = [uid \in Senders \cup {OtherSender} |-> << >>]
    /\ forwarded = [uid \in Senders \cup {OtherSender} |-> << >>]
    /\ lastRejected = [uid \in Senders \cup {OtherSender} |-> -1]

InitStorage ==
    /\ stats = NoStats
    /\ syncInProgress = FALSE
    /\ isConnected = TRUE
    /\ syncPasses = << >>
    /\ syncLogged = "none"

(***************************************************************************)
(* RegistrationFSM: states and transition table.                           *)
(***************************************************************************)
states == <<"not_started", "phone_entered", "name_entered", "role_selected",
            "agenda_viewed", "completed">>

StateSet == {states[i] : i \in 1..Len(states)}

transitions == [s \in StateSet |->
    CASE s = "not_started"   -> {"phone_entered"}
      [] s = "phone_entered" -> {"name_entered"}
      [] s = "name_entered"  -> {"role_selected"}
      [] s = "role_selected" -> {"agenda_viewed"}
      [] s = "agenda_viewed" -> {"completed"}
      [] s = "completed"     -> {}]

isValidTransition(fromState, toState) == toState \in transitions[fromState]

\* A cleaning that removes nothing.
cleanPhoneNumberKeepsAll(phone) == phone

\* phone.replace(/[^\d+]/g, '')
cleanPhoneNumber(phone) == SelectSeq(phone, LAMBDA c : c \in Digits \cup {"+"})

\* /^\+[1-9]\d{1,14}$/.test(phone)
isValidPhoneNumber(phone) ==
    /\ Len(phone) >= 3
    /\ Len(phone) <= 16
    /\ phone[1] = "+"
    /\ phone[2] \in Digits \ {"0"}
    /\ \A i \in 3..Len(phone) : phone[i] \in Digits

\* String.prototype.toLowerCase, on the letters of the model's texts.
toLowerChar(c) ==
    CASE c = "R" -> "r"
      [] c = "E" -> "e"
      [] c = "G" -> "g"
      [] c = "I" -> "i"
      [] c = "S" -> "s"
      [] c = "T" -> "t"
      [] c = "A" -> "a"
      [] c = "K" -> "k"
      [] c = "P" -> "p"
      [] OTHER -> c

toLowerCase(s) == [i \in 1..Len(s) |-> toLowerChar(s[i])]

\* String.prototype.trim
RECURSIVE trimStart(_)
trimStart(s) ==
    IF s # << >> /\ Head(s) \in Whitespace THEN trimStart(Tail(s)) ELSE s

RECURSIVE trimEnd(_)
trimEnd(s) ==
    IF s # << >> /\ s[Len(s)] \in Whitespace
    THEN trimEnd(SubSeq(s, 1, Len(s) - 1))
    ELSE s

\* A trim that leaves the whitespace at the end.
trimStartOnly(s) == trimStart(s)

trim(s) == trimEnd(trimStart(s))

(***************************************************************************)
(* The users collection. A document of the model carries the fields the    *)
(* registration reads and writes.                                           *)
(***************************************************************************)
NoDoc == [id |-> 0, telegramId |-> 0, registrationState |-> "not_started",
          isRegistered |-> FALSE, phoneNumber |-> NoText,
          userFullName |-> NoText, role |-> NoRole]

\* A new document that is created as registered.
NewUserRegistered(telegramId, id) ==
    [id |-> id, telegramId |-> telegramId, registrationState |-> "not_started",
     isRegistered |-> TRUE, phoneNumber |-> NoText, userFullName |-> NoText,
     role |-> NoRole]

\* new User({telegramId, registrationState: 'not_started', isRegistered: false})
NewUser(telegramId, id) ==
    [id |-> id, telegramId |-> telegramId, registrationState |-> "not_started",
     isRegistered |-> FALSE, phoneNumber |-> NoText, userFullName |-> NoText,
     role |-> NoRole]

\* The documents findOne({telegramId}) may return.
Found(telegramId) == {d \in users : d.telegramId = telegramId}

\* The collection without the unique index on telegramId.
UniqueOkWithoutIndex(telegramId) == TRUE

\* The unique index on telegramId: an insert of a second document with the
\* same telegramId fails with E11000.
UniqueOk(telegramId) == Found(telegramId) = {}

\* save() of an existing document: updateOne({_id}, {$set: modified paths}).
\* A path is modified when the value assigned differs from the value loaded.
SaveDoc(loaded, local) ==
    {IF d.id = loaded.id
     THEN [id |-> d.id,
           telegramId |-> d.telegramId,
           registrationState |->
               IF local.registrationState # loaded.registrationState
               THEN local.registrationState ELSE d.registrationState,
           isRegistered |->
               IF local.isRegistered # loaded.isRegistered
               THEN local.isRegistered ELSE d.isRegistered,
           phoneNumber |->
               IF local.phoneNumber # loaded.phoneNumber
               THEN local.phoneNumber ELSE d.phoneNumber,
           userFullName |->
               IF local.userFullName # loaded.userFullName
               THEN local.userFullName ELSE d.userFullName,
           role |->
               IF local.role # loaded.role THEN local.role ELSE d.role]
     ELSE d : d \in users}

\* An update that replaces the record by a fresh one.
findOneAndUpdateReplacing(telegramId) ==
    IF UniqueOk(telegramId)
    THEN users \cup {NewUser(telegramId, Cardinality(users) + 1)}
    ELSE {IF d.telegramId = telegramId THEN NewUser(telegramId, d.id) ELSE d :
             d \in users}

\* User.findOneAndUpdate({ telegramId }, userData, { upsert: true }): the
\* collection after it. userData holds the fields of the Telegram user and
\* the counters of the memory, of which the documents of the model carry
\* telegramId; an unseen sender gets a record with the schema's defaults.
findOneAndUpdate(telegramId) ==
    IF UniqueOk(telegramId)
    THEN users \cup {NewUser(telegramId, Cardinality(users) + 1)}
    ELSE {IF d.telegramId = telegramId
          THEN [d EXCEPT !.telegramId = telegramId]
          ELSE d : d \in users}

(***************************************************************************)
(* userSchema.methods: assignments to the loaded document. The save() that *)
(* ends each of them is the handler's next step.                            *)
(***************************************************************************)
updateRegistrationState(user, state) ==
    [user EXCEPT !.registrationState = state,
                 !.isRegistered = IF state = "completed" THEN TRUE ELSE @]

setPhoneNumber(user, phoneNumber) ==
    [user EXCEPT !.phoneNumber = phoneNumber,
                 !.registrationState = "phone_entered"]

setFullName(user, fullName) ==
    [user EXCEPT !.userFullName = fullName,
                 !.registrationState = "name_entered"]

setRole(user, role) ==
    [user EXCEPT !.role = role, !.registrationState = "role_selected"]

completeRegistrationDoc(user) ==
    [user EXCEPT !.registrationState = "completed", !.isRegistered = TRUE]

\* RegistrationHandler.resetRegistration: fullName is a virtual without a
\* setter, so userFullName keeps its value.
resetRegistrationDoc(user) ==
    [user EXCEPT !.registrationState = "not_started", !.isRegistered = FALSE,
                 !.phoneNumber = NoText, !.role = NoRole]

(***************************************************************************)
(* RegistrationFSM operations, from the document findByTelegramId returned *)
(* (NoDoc: null) to the result and the document handed to save().          *)
(***************************************************************************)
Reject(user, why) == [result |-> why, local |-> user]

Accept(local) == [result |-> "ok", local |-> local]

\* processPhoneNumber with the format check left out.
processPhoneNumberUnchecked(user, phoneNumber) ==
    IF user = NoDoc THEN Reject(user, "not_found")
    ELSE IF ~isValidTransition(user.registrationState, "phone_entered")
    THEN Reject(user, "invalid_transition")
    ELSE IF phoneNumber = NoText
    THEN Reject(user, "failed")
    ELSE Accept(setPhoneNumber(user, cleanPhoneNumber(phoneNumber)))

processPhoneNumber(user, phoneNumber) ==
    IF user = NoDoc THEN Reject(user, "not_found")
    ELSE IF ~isValidTransition(user.registrationState, "phone_entered")
    THEN Reject(user, "invalid_transition")
    ELSE IF phoneNumber = NoText
    THEN Reject(user, "failed")
    ELSE IF ~isValidPhoneNumber(cleanPhoneNumber(phoneNumber))
    THEN Reject(user, "invalid_input")
    ELSE Accept(setPhoneNumber(user, cleanPhoneNumber(phoneNumber)))

processFullName(user, fullName) ==
    IF user = NoDoc THEN Reject(user, "not_found")
    ELSE IF ~isValidTransition(user.registrationState, "name_entered")
    THEN Reject(user, "invalid_transition")
    ELSE IF fullName = NoText \/ Len(trim(fullName)) < 2
    THEN Reject(user, "invalid_input")
    ELSE Accept(setFullName(user, trim(fullName)))

\* A role selection that stores whatever payload it is given.
processRoleSelectionOfAnyRole(user, role) ==
    IF user = NoDoc THEN Reject(user, "not_found")
    ELSE IF ~isValidTransition(user.registrationState, "role_selected")
    THEN Reject(user, "invalid_transition")
    ELSE Accept(setRole(user, role))

processRoleSelection(user, role) ==
    IF user = NoDoc THEN Reject(user, "not_found")
    ELSE IF ~isValidTransition(user.registrationState, "role_selected")
    THEN Reject(user, "invalid_transition")
    ELSE IF role \notin {"buyer", "investor", "both"}
    THEN Reject(user, "invalid_input")
    ELSE Accept(setRole(user, role))

showAgenda(user) ==
    IF user = NoDoc THEN Reject(user, "not_found")
    ELSE IF ~isValidTransition(user.registrationState, "agenda_viewed")
    THEN Reject(user, "invalid_transition")
    ELSE Accept(updateRegistrationState(user, "agenda_viewed"))

completeRegistration(user) ==
    IF user = NoDoc THEN Reject(user, "not_found")
    ELSE IF ~isValidTransition(user.registrationState, "completed")
    THEN Reject(user, "invalid_transition")
    ELSE Accept(completeRegistrationDoc(user))

resetRegistration(user) ==
    IF user = NoDoc THEN Reject(user, "not_found")
    ELSE Accept(resetRegistrationDoc(user))

\* The five operations that move the registration state.
TransitionOps == {"phone", "name", "role", "agenda", "complete"}

\* The state each operation leads to, and the state it starts from.
Target(op) ==
    CASE op = "phone" -> "phone_entered"
      [] op = "name" -> "name_entered"
      [] op = "role" -> "role_selected"
      [] op = "agenda" -> "agenda_viewed"
      [] op = "complete" -> "completed"

Decide(op, user, text, data) ==
    CASE op = "phone" -> processPhoneNumber(user, text)
      [] op = "name" -> processFullName(user, text)
      [] op = "role" -> processRoleSelection(user, data.rest)
      [] op = "agenda" -> showAgenda(user)
      [] op = "complete" -> completeRegistration(user)
      [] op = "reset" -> resetRegistration(user)

(***************************************************************************)
(* The prompt of a state: RegistrationFSM.getStateMessage and              *)
(* getStateKeyboard. A message is named by the question it asks; a         *)
(* keyboard is the set of callback_data of its buttons (null: no button).  *)
(***************************************************************************)
getStateMessage(state) ==
    CASE state = "not_started" -> "enter_phone_number"
      [] state = "phone_entered" -> "enter_full_name"
      [] state = "name_entered" -> "determine_role"
      [] state = "role_selected" -> "agenda_ready_to_complete"
      [] state = "agenda_viewed" -> "registration_complete"
      [] OTHER -> "Unknown state"

getStateKeyboard(state) ==
    CASE state = "role_selected" ->
            {[prefix |-> "role_", rest |-> r] : r \in Roles}
      [] state = "agenda_viewed" ->
            {[prefix |-> "", rest |-> "complete_registration"]}
      [] OTHER -> {}

NoPrompt == [message |-> "none", keyboard |-> {}]

\* message: this.getStateMessage(state), keyboard: this.getStateKeyboard(state)
StatePrompt(state) ==
    [message |-> getStateMessage(state), keyboard |-> getStateKeyboard(state)]

(***************************************************************************)
(* Handlers. One process handles one update or one direct call at a time;  *)
(* pc is the await it is suspended at. A finished handler keeps the result *)
(* of its operation and the message it sent until its process is reused.   *)
(***************************************************************************)
Idle == [pc |-> "idle", op |-> "none", from |-> 0, uid |-> 0, text |-> NoText,
         data |-> NoData, inReg |-> FALSE, loaded |-> NoDoc, local |-> NoDoc,
         result |-> "none", sent |-> "none", prompt |-> NoPrompt,
         logged |-> "none", sendError |-> "none", attempts |-> 0]

Free(p) == h[p].pc \in {"idle", "done"}

Quiet == \A p \in Procs : Free(p)

\* A direct call of a RegistrationHandler method, suspended at its findOne.
Call(p, uid, op, text, data) ==
    /\ Free(p)
    /\ h' = [h EXCEPT ![p] = [Idle EXCEPT !.pc = "find", !.op = op,
                                          !.from = uid,
                                          !.uid = uid, !.text = text,
                                          !.data = data]]
    /\ UNCHANGED <<users, script, memoryUsers, now, storageVars, telegrafVars>>

handlePhoneNumberInput(p) ==
    \E uid \in Senders, text \in Texts : Call(p, uid, "phone", text, NoData)

handleFullNameInput(p) ==
    \E uid \in Senders, text \in Texts : Call(p, uid, "name", text, NoData)

handleRoleSelection(p) ==
    \E uid \in Senders, r \in RoleInputs :
        Call(p, uid, "role", NoText, [prefix |-> "role_", rest |-> r])

handleAgendaView(p) ==
    \E uid \in Senders : Call(p, uid, "agenda", NoText, NoData)

handleRegistrationCompletion(p) ==
    \E uid \in Senders : Call(p, uid, "complete", NoText, NoData)

handleRegistrationStart(p) ==
    \E uid \in Senders : Call(p, uid, "start", NoText, NoData)

ensureUser(p) ==
    \E uid \in Senders : Call(p, uid, "ensure", NoText, NoData)

callResetRegistration(p) ==
    \E uid \in Senders : Call(p, uid, "reset", NoText, NoData)

\* RegistrationFSM.getCurrentState: not_started when there is no record.
getCurrentState(user) ==
    IF user = NoDoc THEN "not_started" ELSE user.registrationState

\* What findOne({telegramId}) may return: a document, or null.
FindOne(telegramId) ==
    IF Found(telegramId) = {} THEN {NoDoc} ELSE Found(telegramId)

\* The message a handler sends for the result of its operation: the prompt
\* of the new state, or the error text. resetRegistration and ensureUser
\* send nothing.
Reply(op, result) ==
    IF op \in {"reset", "ensure"} THEN "none"
    ELSE IF result = "ok" THEN "prompt" ELSE "error"

\* The prompt an operation returns with its result: that of the state of
\* the document it holds when it succeeds, the keyboard of the current state
\* with a validation error, nothing with any other error.
ResultPrompt(op, result, user) ==
    IF op \notin TransitionOps \cup {"start"} THEN NoPrompt
    ELSE IF result = "ok" THEN StatePrompt(user.registrationState)
    ELSE IF result = "invalid_input"
    THEN [message |-> "error",
          keyboard |-> getStateKeyboard(user.registrationState)]
    ELSE NoPrompt

\* hp.local is the document the operation holds when it returns.
Finish(hp, result) ==
    [Idle EXCEPT !.pc = "done", !.op = hp.op, !.uid = hp.uid,
                 !.result = result, !.sent = Reply(hp.op, result),
                 !.prompt = ResultPrompt(hp.op, result, hp.local),
                 !.logged = IF result = "failed" THEN "operation_error"
                            ELSE "none",
                 !.attempts = IF Reply(hp.op, result) = "none" THEN 0 ELSE 1]

\* The handler after findByTelegramId answered with user: the synchronous
\* code up to the next await, or to the end of the handler.
Decided(hp, user) ==
    IF hp.op \in {"start", "ensure"}
    THEN IF user = NoDoc
         THEN [hp EXCEPT !.pc = "insert"]
         ELSE Finish([hp EXCEPT !.local = user], "ok")
    ELSE LET r == Decide(hp.op, user, hp.text, hp.data) IN
         IF r.result = "ok"
         THEN [hp EXCEPT !.pc = "save", !.loaded = user, !.local = r.local]
         ELSE Finish([hp EXCEPT !.local = r.local], r.result)

\* await User.findByTelegramId(userId), and the synchronous code up to the
\* next await: the state check, the validation and the assignments.
FindUser(p) ==
    /\ h[p].pc = "find"
    /\ \E user \in FindOne(h[p].uid) :
        h' = [h EXCEPT ![p] = Decided(h[p], user)]
    /\ UNCHANGED <<users, script, memoryUsers, now, storageVars, telegrafVars>>

\* await user.save() of a loaded document, then the handler's sendMessage.
SaveUser(p) ==
    /\ h[p].pc = "save"
    /\ users' = SaveDoc(h[p].loaded, h[p].local)
    /\ h' = [h EXCEPT ![p] = Finish(h[p], "ok")]
    /\ UNCHANGED <<script, memoryUsers, now, storageVars, telegrafVars>>

\* await user.save() of a new document: an insert, which the unique index
\* on telegramId rejects when the sender has a record by now.
InsertUser(p) ==
    /\ h[p].pc = "insert"
    /\ IF UniqueOk(h[p].uid)
       THEN /\ users' = users \cup {NewUser(h[p].uid, Cardinality(users) + 1)}
            /\ h' = [h EXCEPT ![p] =
                   Finish([h[p] EXCEPT !.local =
                               NewUser(h[p].uid, Cardinality(users) + 1)],
                          "ok")]
       ELSE /\ users' = users
            /\ h' = [h EXCEPT ![p] = Finish(h[p], "error")]
    /\ UNCHANGED <<script, memoryUsers, now, storageVars, telegrafVars>>

Init ==
    /\ users = {}
    /\ h = [p \in Procs |-> Idle]
    /\ script = 0
    /\ memoryUsers = NoMemory
    /\ now = 0
    /\ InitStorage
    /\ InitTelegraf

\* The steps of a handler that is past its first await.
Step(p) ==
    \/ FindUser(p)
    \/ SaveUser(p)
    \/ InsertUser(p)

\* The registration operations, called in any number and interleaving.
NextReg ==
    \E p \in Procs :
        \/ handlePhoneNumberInput(p)
        \/ handleFullNameInput(p)
        \/ handleRoleSelection(p)
        \/ handleAgendaView(p)
        \/ handleRegistrationCompletion(p)
        \/ handleRegistrationStart(p)
        \/ ensureUser(p)
        \/ Step(p)

Next == NextReg \/ \E p \in Procs : callResetRegistration(p)

Spec == Init /\ [][Next]_vars

\* The registration operations without resetRegistration.
SpecReg == Init /\ [][NextReg]_vars

(***************************************************************************)
(* Failures of the store and of the Bot API. A rejected findByTelegramId   *)
(* or save() lands in the catch of the operation; a rejected sendMessage   *)
(* lands in the catch of the handler, which logs and sends an apology.     *)
(***************************************************************************)
\* Errors with which the Bot API rejects a send.
SendErrors == {"transient", "permanent"}

\* An operation that lets the error of the store through to its caller.
Rethrown(hp) == [Idle EXCEPT !.pc = "thrown", !.op = hp.op, !.uid = hp.uid]

\* catch (error) of an operation: Logger.error and { success: false, error }.
\* resetRegistration returns false, ensureUser logs and goes on.
Caught(hp) == Finish(hp, "failed")

\* await User.findByTelegramId(userId) rejects.
FindFails(p) ==
    /\ h[p].pc = "find"
    /\ h' = [h EXCEPT ![p] = Caught(h[p])]
    /\ UNCHANGED <<users, script, memoryUsers, now, storageVars, telegrafVars>>

\* await user.save() rejects: nothing is written.
SaveFails(p) ==
    /\ h[p].pc \in {"save", "insert"}
    /\ h' = [h EXCEPT ![p] = Caught(h[p])]
    /\ UNCHANGED <<users, script, memoryUsers, now, storageVars, telegrafVars>>

\* A text-less message handed to handlePhoneNumberInput: msg.text is
\* undefined.
handlePhoneNumberInputWithoutText(p) ==
    \E uid \in Senders : Call(p, uid, "phone", NoText, NoData)

\* The handler sends the message of the finished operation.
Sends(hp) == hp.pc = "done" /\ hp.sent \in {"prompt", "error"}

\* The send of a finished handler is rejected with error after one attempt:
\* the handler's catch logs and sends the apology, which is delivered or is
\* rejected as well, and then the handler rejects.
Undelivered(hp, error, apologyDelivered) ==
    [hp EXCEPT !.sent = IF apologyDelivered THEN "apology" ELSE "rejected",
               !.sendError = error,
               !.logged = "handler_error"]

\* A handler's catch that undoes the transition the operation saved.
afterCatchRolledBack(loaded, local) == users

\* The collection after the catch of a handler whose operation saved local:
\* the catch writes no record.
afterCatch(loaded, local) == SaveDoc(loaded, local)

FindUserUndelivered(p) ==
    /\ h[p].pc = "find"
    /\ \E user \in FindOne(h[p].uid), error \in SendErrors,
          apologyDelivered \in BOOLEAN :
        /\ Sends(Decided(h[p], user))
        /\ h' = [h EXCEPT ![p] =
                 Undelivered(Decided(h[p], user), error, apologyDelivered)]
    /\ UNCHANGED <<users, script, memoryUsers, now, storageVars, telegrafVars>>

SaveUserUndelivered(p) ==
    /\ h[p].pc = "save"
    /\ Sends(Finish(h[p], "ok"))
    /\ \E error \in SendErrors, apologyDelivered \in BOOLEAN :
        h' = [h EXCEPT ![p] =
                 Undelivered(Finish(h[p], "ok"), error, apologyDelivered)]
    /\ users' = afterCatch(h[p].loaded, h[p].local)
    /\ UNCHANGED <<script, memoryUsers, now, storageVars, telegrafVars>>

InsertUserUndelivered(p) ==
    /\ h[p].pc = "insert"
    /\ Sends(Finish(h[p], "ok"))
    /\ \E error \in SendErrors, apologyDelivered \in BOOLEAN :
        IF UniqueOk(h[p].uid)
        THEN /\ users' = users \cup
                          {NewUser(h[p].uid, Cardinality(users) + 1)}
             /\ h' = [h EXCEPT ![p] =
                      Undelivered(Finish([h[p] EXCEPT !.local =
                                      NewUser(h[p].uid, Cardinality(users) + 1)],
                                  "ok"), error, apologyDelivered)]
        ELSE /\ users' = users
             /\ h' = [h EXCEPT ![p] =
                      Undelivered(Finish(h[p], "error"), error,
                                  apologyDelivered)]
    /\ UNCHANGED <<script, memoryUsers, now, storageVars, telegrafVars>>

\* The steps of a handler whose store or whose send fails.
Fault(p) ==
    \/ FindFails(p)
    \/ SaveFails(p)
    \/ FindUserUndelivered(p)
    \/ SaveUserUndelivered(p)
    \/ InsertUserUndelivered(p)

NextFault ==
    \/ NextReg
    \/ \E p \in Procs : handlePhoneNumberInputWithoutText(p) \/ Fault(p)

\* The registration operations with a store and a Bot API that may fail.
SpecFault == Init /\ [][NextFault]_vars

(***************************************************************************)
(* BotService: the dispatcher of inbound updates.                          *)
(***************************************************************************)
\* RegistrationHandler.isInRegistration
isInRegistration(state) == state # "completed" /\ state # "not_started"

\* The end-to-end scenario: a phone number, a full name, the choice of a
\* role, an acknowledgement of the agenda and the confirmation.
ScriptEvents ==
    << [kind |-> "msg", text |-> TextPhone, data |-> NoData],
       [kind |-> "msg", text |-> TextPhone, data |-> NoData],
       [kind |-> "cb", text |-> NoText,
        data |-> [prefix |-> "role_", rest |-> "investor"]],
       [kind |-> "msg", text |-> TextPhone, data |-> NoData],
       [kind |-> "cb", text |-> NoText,
        data |-> [prefix |-> "", rest |-> "complete_registration"]] >>

\* The scenario starts from a sender whose record is in not_started.
ScriptMayStart(uid) ==
    \E d \in Found(uid) : d.registrationState = "not_started"

\* An event continues the scenario when it is the scenario's next event and
\* arrives with no other event under way; any other event abandons it.
ScriptAfter(uid, kind, text, data) ==
    IF /\ Quiet
       /\ script < Len(ScriptEvents)
       /\ (script > 0 \/ ScriptMayStart(uid))
       /\ ScriptEvents[script + 1] = [kind |-> kind, text |-> text, data |-> data]
    THEN script + 1
    ELSE 0

\* An update enters its handler, which runs up to its first await.
Deliver(p, uid, kind, text, data) ==
    /\ Free(p)
    /\ h' = [h EXCEPT ![p] = [Idle EXCEPT !.pc = kind, !.from = uid,
                                          !.uid = uid,
                                          !.text = text, !.data = data]]
    /\ script' = ScriptAfter(uid, kind, text, data)
    /\ UNCHANGED <<users, memoryUsers, now, storageVars, telegrafVars>>

\* bot.on('message'): BotService.handleMessage
handleMessage(p) ==
    \E uid \in Senders, text \in MsgTexts : Deliver(p, uid, "msg", text, NoData)

\* bot.on('callback_query'): BotService.handleCallbackQuery
handleCallbackQuery(p) ==
    \E uid \in Senders, data \in CallbackData :
        Deliver(p, uid, "cb", NoText, data)

\* await memoryStorage.setUser: when MongoDB is enabled and connected,
\* findOneAndUpdate({telegramId}, userData, {upsert: true}), which creates
\* the record of an unseen sender and writes no registration field of an
\* existing one.
syncUserToMongoDB(p) ==
    /\ h[p].pc = "msg"
    /\ memoryUsers' = MemorySet(memoryUsers, h[p].uid, now)
    /\ stats' = statsAfterSetUser(stats, memoryUsers, h[p].uid)
    /\ \/ users' = findOneAndUpdate(h[p].uid)
       \/ users' = users
    /\ h' = [h EXCEPT ![p].pc = "isInReg"]
    /\ UNCHANGED <<script, now, syncVars, telegrafVars>>

\* MemoryStorage.startSyncInterval: one syncUserToMongoDB of the loop over
\* the users in memory.
startSyncInterval ==
    /\ \E uid \in DOMAIN memoryUsers : users' = findOneAndUpdate(uid)
    /\ UNCHANGED <<h, script, memoryUsers, now, storageVars, telegrafVars>>

\* await this.registrationHandler.isInRegistration(userId)
readIsInRegistration(p) ==
    /\ h[p].pc = "isInReg"
    /\ \E user \in FindOne(h[p].uid) :
        h' = [h EXCEPT ![p].pc = "curState",
                       ![p].inReg = isInRegistration(getCurrentState(user))]
    /\ UNCHANGED <<users, script, memoryUsers, now, storageVars, telegrafVars>>

\* A handler that answers with a fixed text and touches no record.
Answer(hp, op) ==
    [Idle EXCEPT !.pc = "done", !.op = op, !.uid = hp.uid, !.result = "ok",
                 !.sent = "reply"]

\* BotService.handleRegistrationMessage
handleRegistrationMessage(hp, currentState) ==
    CASE currentState = "not_started" ->
            [hp EXCEPT !.pc = "find", !.op = "phone", !.inReg = FALSE]
      [] currentState = "phone_entered" ->
            [hp EXCEPT !.pc = "find", !.op = "name", !.inReg = FALSE]
      [] OTHER -> Answer(hp, "registration_hint")

\* user && user.isRegistered, of the user MemoryStorage.getUser returns
\* (undefined for a user that is not in memory).
isRegisteredInMemory(uid) ==
    /\ uid \in DOMAIN memoryUsers
    /\ "isRegistered" \in DOMAIN memoryUsers[uid]
    /\ memoryUsers[uid].isRegistered

\* BotService.sendStartMessage
sendStartMessage(uid) ==
    IF isRegisteredInMemory(uid) THEN "welcome_back" ELSE "invitation"

\* BotService.handleTextMessage
handleTextMessage(hp) ==
    IF toLowerCase(trim(hp.text)) = TextStart
    THEN [Answer(hp, "sendStartMessage") EXCEPT
              !.sent = sendStartMessage(hp.uid)]
    ELSE IF toLowerCase(trim(hp.text)) = TextRegister
    THEN [hp EXCEPT !.pc = "find", !.op = "start", !.inReg = FALSE]
    ELSE Answer(hp, "text")

\* The handler a text message is routed to, given the two reads of
\* handleMessage.
routeMessage(hp, currentState) ==
    IF hp.inReg /\ hp.text # NoText
    THEN handleRegistrationMessage(hp, currentState)
    ELSE handleTextMessage(hp)

\* The memory after the routing: handleTextMessage looks the sender up with
\* MemoryStorage.getUser, which sets lastSeen of a user it finds.
memoryAfterRouting(hp) ==
    IF (hp.inReg /\ hp.text # NoText) \/ hp.uid \notin DOMAIN memoryUsers
    THEN memoryUsers
    ELSE MemorySet(memoryUsers, hp.uid, now)

\* await this.registrationHandler.getCurrentState(userId), and the routing
\* that follows it.
RouteMessage(p) ==
    /\ h[p].pc = "curState"
    /\ \E user \in FindOne(h[p].uid) :
        h' = [h EXCEPT ![p] = routeMessage(h[p], getCurrentState(user))]
    /\ memoryUsers' = memoryAfterRouting(h[p])
    /\ UNCHANGED <<users, script, now, storageVars, telegrafVars>>

\* The handler a callback query is routed to, by its data alone.
\* start_registration hands callbackQuery.message to handleRegistrationStart,
\* whose msg.from is the bot that sent the message with the button.
routeCallback(hp) ==
    IF hp.data.prefix = "role_"
    THEN [hp EXCEPT !.pc = "find", !.op = "role"]
    ELSE IF hp.data.rest = "complete_registration"
    THEN [hp EXCEPT !.pc = "find", !.op = "complete"]
    ELSE IF hp.data.rest = "start_registration"
    THEN [hp EXCEPT !.pc = "find", !.op = "start", !.uid = BotSender]
    ELSE Answer(hp, "button")

\* await this.bot.answerCallbackQuery, then the routing on callback data.
RouteCallback(p) ==
    /\ h[p].pc = "cb"
    /\ h' = [h EXCEPT ![p] = routeCallback(h[p])]
    /\ UNCHANGED <<users, script, memoryUsers, now, storageVars, telegrafVars>>

\* The records the registration operations produce, one step after the
\* other, for the answers of the model.
Registered(n, role) ==
    LET d0 == NewUser(CHOOSE uid \in Senders : TRUE, 1)
        d1 == setPhoneNumber(d0, cleanPhoneNumber(TextPhone))
        d2 == setFullName(d1, trim(TextPhone))
        d3 == setRole(d2, role)
        d4 == updateRegistrationState(d3, "agenda_viewed")
        d5 == completeRegistrationDoc(d4)
    IN  <<d0, d1, d2, d3, d4, d5>>[n]

\* The dispatcher starts with an unseen sender, or with a sender whose
\* registration has reached any of its states.
InitBot ==
    /\ users \in {{}} \cup {{Registered(n, "investor")} : n \in 1..Len(states)}
    /\ h = [p \in Procs |-> Idle]
    /\ script = 0
    /\ memoryUsers = NoMemory
    /\ now = 0
    /\ InitStorage
    /\ InitTelegraf

NextBot ==
    \/ \E p \in Procs :
        \/ handleMessage(p)
        \/ handleCallbackQuery(p)
        \/ syncUserToMongoDB(p)
        \/ readIsInRegistration(p)
        \/ RouteMessage(p)
        \/ RouteCallback(p)
        \/ Step(p)
    \/ startSyncInterval

\* The bot: updates dispatched by BotService.
SpecBot == InitBot /\ [][NextBot]_vars

(***************************************************************************)
(* Two senders: the registration operations of one sender interleaved with *)
(* those of another.                                                       *)
(***************************************************************************)
handlerOfEitherSender(p) ==
    \E uid \in Senders \cup {OtherSender} :
        \/ Call(p, uid, "ensure", NoText, NoData)
        \/ Call(p, uid, "phone", TextPhone, NoData)
        \/ Call(p, uid, "name", TextPhone, NoData)
        \/ \E r \in {"buyer", "investor"} :
               Call(p, uid, "role", NoText, [prefix |-> "role_", rest |-> r])

NextPair ==
    \E p \in Procs :
        \/ handlerOfEitherSender(p)
        \/ Step(p)

SpecPair == Init /\ [][NextPair]_vars

(***************************************************************************)
(* MemoryStorage over time: users seen, looked up and cleaned up. Time is  *)
(* counted in days.                                                        *)
(***************************************************************************)
MaxNow == 9

\* const inactiveThreshold = 7 * 24 * 60 * 60 * 1000; // 7 days
inactiveThreshold == 7

\* new Date() moves on.
Tick ==
    /\ now < MaxNow
    /\ now' = now + 1
    /\ UNCHANGED <<users, h, script, memoryUsers, storageVars, telegrafVars>>

\* Users counted by stats.totalUsers, at most.
MaxTotalUsers == 3

\* MemoryStorage.setUser, with the upsert of syncUserToMongoDB when MongoDB
\* is enabled and connected.
setUser(uid) ==
    /\ uid \in DOMAIN memoryUsers \/ stats.totalUsers < MaxTotalUsers
    /\ memoryUsers' = MemorySet(memoryUsers, uid, now)
    /\ stats' = statsAfterSetUser(stats, memoryUsers, uid)
    /\ \/ users' = findOneAndUpdate(uid)
       \/ users' = users
    /\ UNCHANGED <<h, script, now, syncVars, telegrafVars>>

\* MemoryStorage.getUser: a user that is found is seen.
getUser(uid) ==
    /\ uid \in DOMAIN memoryUsers
    /\ memoryUsers' = MemorySet(memoryUsers, uid, now)
    /\ UNCHANGED <<users, h, script, now, storageVars, telegrafVars>>

\* MemoryStorage.removeUser
removeUser(uid) ==
    /\ uid \in DOMAIN memoryUsers
    /\ memoryUsers' = MemoryDelete(memoryUsers, {uid})
    /\ stats' = activeUsersOf(stats, memoryUsers')
    /\ UNCHANGED <<users, h, script, now, syncVars, telegrafVars>>

\* Users removed once they have been unseen for the threshold itself.
inactiveUsersFromThreshold(mem, t) ==
    {uid \in DOMAIN mem : t - mem[uid].lastSeen >= inactiveThreshold}

\* timeSinceLastSeen > inactiveThreshold
inactiveUsers(mem, t) ==
    {uid \in DOMAIN mem : t - mem[uid].lastSeen > inactiveThreshold}

\* MemoryStorage.cleanupInactiveUsers
cleanupInactiveUsers ==
    /\ memoryUsers' = MemoryDelete(memoryUsers, inactiveUsers(memoryUsers, now))
    /\ stats' = activeUsersOf(stats, memoryUsers')
    /\ UNCHANGED <<users, h, script, now, syncVars, telegrafVars>>

\* The Map after the loop of loadUsersFromMongoDB: every record of the
\* collection is set, with the lastSeen it was last synced with.
memoryLoaded(mem, lastSeenOf) ==
    [uid \in DOMAIN mem \cup DOMAIN lastSeenOf |->
        IF uid \in DOMAIN lastSeenOf THEN [lastSeen |-> lastSeenOf[uid]]
        ELSE mem[uid]]

\* MemoryStorage.loadUsersFromMongoDB, when MongoDB is enabled and connected.
loadUsersFromMongoDB ==
    /\ \E lastSeenOf \in [{d.telegramId : d \in users} -> 0..now] :
           memoryUsers' = memoryLoaded(memoryUsers, lastSeenOf)
    /\ stats' = activeUsersOf(stats, memoryUsers')
    /\ UNCHANGED <<users, h, script, now, syncVars, telegrafVars>>

\* MemoryStorage.clear
clear ==
    /\ memoryUsers' = NoMemory
    /\ stats' = NoStats
    /\ UNCHANGED <<users, h, script, now, syncVars, telegrafVars>>

NextMemory ==
    \/ Tick
    \/ \E uid \in Senders \cup {OtherSender} : setUser(uid)
    \/ \E uid \in Senders \cup {OtherSender} : getUser(uid)
    \/ \E uid \in Senders \cup {OtherSender} : removeUser(uid)
    \/ cleanupInactiveUsers
    \/ loadUsersFromMongoDB
    \/ clear

SpecMemory == Init /\ [][NextMemory]_vars

(***************************************************************************)
(* MemoryStorage.startSyncInterval: the timer's callback as a pass that    *)
(* starts, syncs the users in memory one await after the other, and ends.  *)
(***************************************************************************)
\* A timer tick that starts a pass whatever the flag and the connection.
syncTickUnguarded ==
    /\ syncInProgress' = TRUE
    /\ syncPasses' = Append(syncPasses, {})
    /\ UNCHANGED <<users, h, script, memoryUsers, now, stats, isConnected,
                   syncLogged, telegrafVars>>

\* The callback of setInterval up to its first await:
\* if (this.syncInProgress || !databaseService.isConnected) return;
\* this.syncInProgress = true;
syncTick ==
    /\ ~(syncInProgress \/ ~isConnected)
    /\ syncInProgress' = TRUE
    /\ syncPasses' = Append(syncPasses, {})
    /\ UNCHANGED <<users, h, script, memoryUsers, now, stats, isConnected,
                   syncLogged, telegrafVars>>

\* await this.syncUserToMongoDB(user) of pass i, for the next user of the
\* Map; the upsert may be rejected, which syncUserToMongoDB catches.
syncPassStep(i) ==
    /\ \E uid \in DOMAIN memoryUsers \ syncPasses[i] :
        /\ syncPasses' = [syncPasses EXCEPT ![i] = @ \cup {uid}]
        /\ \/ isConnected /\ users' = findOneAndUpdate(uid)
           \/ users' = users
    /\ UNCHANGED <<h, script, memoryUsers, now, stats, syncInProgress,
                   isConnected, syncLogged, telegrafVars>>

\* s without its i-th element.
RemoveAt(s, i) == SubSeq(s, 1, i - 1) \o SubSeq(s, i + 1, Len(s))

\* Pass i ends: its loops are through, or something in the try block threw;
\* finally { this.syncInProgress = false }
syncPassEnds(i) ==
    /\ \/ DOMAIN memoryUsers \subseteq syncPasses[i] /\ syncLogged' = "synced"
       \/ syncLogged' = "sync_error"
    /\ syncPasses' = RemoveAt(syncPasses, i)
    /\ syncInProgress' = FALSE
    /\ UNCHANGED <<users, h, script, memoryUsers, now, stats, isConnected, telegrafVars>>

\* The connection to MongoDB is lost or comes back.
connectionChanges ==
    /\ isConnected' = ~isConnected
    /\ UNCHANGED <<users, h, script, memoryUsers, now, stats, syncInProgress,
                   syncPasses, syncLogged, telegrafVars>>

NextSync ==
    \/ syncTick
    \/ \E i \in DOMAIN syncPasses : syncPassStep(i) \/ syncPassEnds(i)
    \/ connectionChanges
    \/ \E uid \in Senders \cup {OtherSender} : setUser(uid) \/ removeUser(uid)

SpecSync == Init /\ [][NextSync]_vars

(***************************************************************************)
(* The rateLimit middleware of the Telegraf bot. Time is counted in units  *)
(* of which windowMs is a few.                                             *)
(***************************************************************************)
MaxRateNow == 6

\* rateLimit(maxRequests = 20, windowMs = 900000), scaled down.
maxRequests == 2

windowMs == 3

\* A limiter that records the request it rejects.
rateLimitRecordingRejected(userRequests, t) ==
    LET validRequests == SelectSeq(userRequests, LAMBDA time : t - time < windowMs)
    IN  [forward |-> Len(validRequests) < maxRequests,
         requests |-> Append(validRequests, t)]

\* The decision of the middleware for a request at time t of a user whose
\* recorded requests are userRequests, and the array it stores (the one it
\* found when it rejects).
rateLimitDecision(userRequests, t) ==
    LET validRequests == SelectSeq(userRequests, LAMBDA time : t - time < windowMs)
    IN  IF Len(validRequests) >= maxRequests
        THEN [forward |-> FALSE, requests |-> userRequests]
        ELSE [forward |-> TRUE, requests |-> Append(validRequests, t)]

\* The middleware rateLimit returns, for an update of user userId.
rateLimit(userId) ==
    LET r == rateLimitDecision(requests[userId], now) IN
    /\ requests' = [requests EXCEPT ![userId] = r.requests]
    /\ forwarded' = [forwarded EXCEPT ![userId] =
                         IF r.forward THEN Append(@, now) ELSE @]
    /\ lastRejected' = [lastRejected EXCEPT ![userId] =
                            IF r.forward THEN @ ELSE now]
    /\ UNCHANGED <<users, h, script, memoryUsers, now, storageVars,
                   conversationVars>>

\* Date.now() moves on.
rateTick ==
    /\ now < MaxRateNow
    /\ now' = now + 1
    /\ UNCHANGED <<users, h, script, memoryUsers, storageVars, telegrafVars>>

NextRate ==
    \/ rateTick
    \/ \E userId \in Senders \cup {OtherSender} : rateLimit(userId)

SpecRate == Init /\ [][NextRate]_vars

(***************************************************************************)
(* The Telegraf bot: trackConversation, the 'profile_setup' action and the *)
(* text handler. An update is a process that awaits one write after the    *)
(* other; ensureUser has put the sender's user into ctx.user.              *)
(***************************************************************************)
\* enum: ['command', 'callback', 'message', 'inline_query']
conversationTypes == {"command", "callback", "message", "inline_query"}

\* " Skip": 'skip' after trim() and toLowerCase().
TextSkip == <<" ", "S", "k", "i", "p">>

\* Texts of the messages sent to the Telegraf bot.
ProfileTexts == {TextSkip, TextShort}

\* Conversation.findActiveByTelegramId: findOne({ telegramId, isActive: true })
findActiveByTelegramId(telegramId) ==
    LET active == {c \in conversations :
                      c.telegramId = telegramId /\ c.isActive}
    IN  IF active = {} THEN {NoConversation} ELSE active

\* Conversation.createConversation: the document create() would store.
createConversation(telegramId, type) ==
    [id |-> Cardinality(conversations) + 1, telegramId |-> telegramId,
     type |-> type, state |-> "idle", step |-> 0, isActive |-> TRUE]

\* The document with the paths of a write set.
Modified(c, w) ==
    [c EXCEPT !.type = IF w.type = "keep" THEN @ ELSE w.type,
              !.state = IF w.state = "keep" THEN @ ELSE w.state,
              !.step = IF w.step = -1 THEN @ ELSE w.step]

\* bot.use(...): an update enters the middleware chain.
handleUpdate(p) ==
    /\ ctx[p].pc \in {"idle", "done"}
    /\ \E from \in Senders :
        \/ \E text \in ProfileTexts :
               ctx' = [ctx EXCEPT ![p] =
                          [IdleCtx EXCEPT !.pc = "find", !.from = from,
                                          !.updateType = "message",
                                          !.text = text]]
        \/ ctx' = [ctx EXCEPT ![p] =
                      [IdleCtx EXCEPT !.pc = "find", !.from = from,
                                      !.updateType = "callback_query"]]
    /\ UNCHANGED <<users, h, script, memoryUsers, now, storageVars,
                   limiterVars, conversations, profile>>

\* trackConversation up to its write: the active conversation is looked up;
\* it is created when there is none, and otherwise saved with the type of
\* the update.
trackConversation(p) ==
    /\ ctx[p].pc = "find"
    /\ \E c \in findActiveByTelegramId(ctx[p].from) :
        ctx' = [ctx EXCEPT
                   ![p].pc = "track",
                   ![p].conversation = c,
                   ![p].writes =
                       IF c = NoConversation
                       THEN <<Write("create", 0, ctx[p].updateType, "keep",
                                    -1, "none", << >>)>>
                       ELSE <<Write("save", c.id, ctx[p].updateType, "keep",
                                    -1, "none", << >>)>>]
    /\ UNCHANGED <<users, h, script, memoryUsers, now, storageVars,
                   limiterVars, conversations, profile>>

\* BotController.continueProfileSetup: the writes it awaits.
continueProfileSetup(c) ==
    IF c.step <= Len(fields) THEN << >>
    ELSE <<Write("save", c.id, "keep", "idle", -1, "none", << >>)>>

\* BotController.handleProfileSetupMessage: the writes it awaits.
handleProfileSetupMessage(c, text) ==
    LET message == trim(text)
        next == [c EXCEPT !.step = @ + 1]
        advance == Write("save", c.id, "keep", "keep", next.step, "none", << >>)
    IN  IF toLowerCase(message) = <<"s", "k", "i", "p">>
        THEN <<advance>> \o continueProfileSetup(next)
        ELSE IF c.step <= Len(fields)
        THEN <<Write("saveUser", 0, "keep", "keep", -1,
                     IF c.step \in DOMAIN fields THEN fields[c.step]
                     ELSE "undefined", message),
               advance>> \o continueProfileSetup(next)
        ELSE << >>

\* startHandler.handleProfileSetup: the write it awaits.
handleProfileSetup(c) ==
    IF c # NoConversation
    THEN <<Write("save", c.id, "keep", "profile_setup", 1, "none", << >>)>>
    ELSE << >>

\* bot.on('text', ...): the writes of the handler the state selects.
onText(c, text) ==
    IF c = NoConversation THEN << >>
    ELSE IF c.state = "profile_setup" THEN handleProfileSetupMessage(c, text)
    ELSE << >>

\* The writes of the handler the update reaches after the middleware.
handlerWrites(cx, c) ==
    IF cx.updateType = "callback_query" THEN handleProfileSetup(c)
    ELSE onText(c, cx.text)

\* The update with the writes that are left; it is done when none is.
awaiting(cx, writes) ==
    [cx EXCEPT !.writes = writes,
               !.pc = IF writes = << >> THEN "done" ELSE "handler"]

\* The write of trackConversation is through: ctx.conversation is the
\* document c, or unset when the write was rejected and the catch block
\* called next().
tracked(cx, c) ==
    awaiting([cx EXCEPT !.conversation = c,
                        !.logged = IF c = NoConversation
                                   THEN "trackConversation" ELSE "none"],
             handlerWrites(cx, c))

\* The enum validator of the path type.
typeIsValid(type) == type \in conversationTypes

\* One awaited write of an update: create() or save() of a conversation,
\* which validate the type, or save() of the user.
awaitWrite(p) ==
    LET cx == ctx[p]
        w == Head(cx.writes)
        created == createConversation(cx.from, w.type)
        saved == Modified(cx.conversation, w)
    IN
    /\ cx.pc \in {"track", "handler"}
    /\ CASE cx.pc = "track" /\ ~typeIsValid(w.type) ->
               /\ ctx' = [ctx EXCEPT ![p] = tracked(cx, NoConversation)]
               /\ UNCHANGED <<conversations, profile>>
         [] cx.pc = "track" /\ w.kind = "create" ->
               /\ conversations' = conversations \cup {created}
               /\ ctx' = [ctx EXCEPT ![p] = tracked(cx, created)]
               /\ UNCHANGED profile
         [] cx.pc = "track" /\ w.kind = "save" ->
               /\ conversations' =
                      {IF c.id = w.id THEN Modified(c, w) ELSE c :
                          c \in conversations}
               /\ ctx' = [ctx EXCEPT ![p] = tracked(cx, saved)]
               /\ UNCHANGED profile
         [] cx.pc = "handler" /\ w.kind = "saveUser" ->
               /\ profile' = [profile EXCEPT ![w.field] = w.value]
               /\ ctx' = [ctx EXCEPT ![p] = awaiting(cx, Tail(cx.writes))]
               /\ UNCHANGED conversations
         [] OTHER ->
               /\ conversations' =
                      {IF c.id = w.id THEN Modified(c, w) ELSE c :
                          c \in conversations}
               /\ ctx' = [ctx EXCEPT ![p] =
                              awaiting([cx EXCEPT !.conversation = saved],
                                       Tail(cx.writes))]
               /\ UNCHANGED profile
    /\ UNCHANGED <<users, h, script, memoryUsers, now, storageVars,
                   limiterVars>>

NextConversation ==
    \E p \in Procs :
        \/ handleUpdate(p)
        \/ trackConversation(p)
        \/ awaitWrite(p)

SpecConversation == Init /\ [][NextConversation]_vars

(***************************************************************************)
(* The phone number and the full name as functions of the text: texts of   *)
(* every shape up to a length, handed to the two handlers one at a time    *)
(* for a record that waits for them.                                       *)
(***************************************************************************)
MaxPhoneLen == 4

MaxNameLen == 4

SeqsUpTo(S, n) == UNION {[1..k -> S] : k \in 0..n}

\* '+1 (234) 567-8901'
TextFormattedPhone ==
    <<"+", "1", " ", "(", "2", "3", "4", ")", " ", "5", "6", "7", "-",
      "8", "9", "0", "1">>

\* '12345'
TextDigitsOnly == <<"1", "2", "3", "4", "5">>

\* '+' and 15 digits, the longest number the pattern takes, and one more.
TextLongestPhone == <<"+">> \o [i \in 1..15 |-> "1"]

TextTooLongPhone == <<"+">> \o [i \in 1..16 |-> "1"]

PhoneTexts ==
    (SeqsUpTo({"+", "1", "0", " "}, MaxPhoneLen) \ {NoText}) \cup
    {TextFormattedPhone, TextDigitsOnly, TextLongestPhone, TextTooLongPhone}

NameTexts == SeqsUpTo({" ", "a", "\t"}, MaxNameLen)

handlePhoneNumberInputOfText(p) ==
    /\ Quiet
    /\ \E uid \in Senders, text \in PhoneTexts :
        Call(p, uid, "phone", text, NoData)

handleFullNameInputOfText(p) ==
    /\ Quiet
    /\ \E uid \in Senders, text \in NameTexts :
        Call(p, uid, "name", text, NoData)

\* The sender's record waits for the phone number or for the full name.
InitInput ==
    /\ users \in {{Registered(n, "investor")} : n \in {1, 2}}
    /\ h = [p \in Procs |-> Idle]
    /\ script = 0
    /\ memoryUsers = NoMemory
    /\ now = 0
    /\ InitStorage
    /\ InitTelegraf

NextInput ==
    \E p \in Procs :
        \/ handlePhoneNumberInputOfText(p)
        \/ handleFullNameInputOfText(p)
        \/ FindUser(p)
        \/ SaveUser(p)

SpecInput == InitInput /\ [][NextInput]_vars

(***************************************************************************)
(* The bot with a store that may fail under the dispatcher, with updates   *)
(* that lack a sender or a message, and with the webhook endpoint.         *)
(***************************************************************************)
\* process.on('unhandledRejection') has not ended the process.
Running == \A p \in Procs : h[p].pc # "exit"

\* A promise nobody awaits rejects: 'Unhandled Rejection' is logged and
\* process.exit(1) ends the process.
Exit(op) == [Idle EXCEPT !.pc = "exit", !.op = op,
                         !.logged = "unhandled_rejection"]

\* isInRegistration when findByTelegramId rejects: getCurrentState catches,
\* logs and returns not_started.
readIsInRegistrationFails(p) ==
    /\ h[p].pc = "isInReg"
    /\ h' = [h EXCEPT ![p].pc = "curState",
                      ![p].inReg = isInRegistration("not_started"),
                      ![p].logged = "state_error"]
    /\ UNCHANGED <<users, script, memoryUsers, now, storageVars, telegrafVars>>

\* getCurrentState when findByTelegramId rejects: not_started, and the
\* routing goes on with it.
RouteMessageFails(p) ==
    /\ h[p].pc = "curState"
    /\ h' = [h EXCEPT ![p] =
             routeMessage([h[p] EXCEPT !.logged = "state_error"],
                          "not_started")]
    /\ memoryUsers' = memoryAfterRouting(h[p])
    /\ UNCHANGED <<users, script, now, storageVars, telegrafVars>>

\* handleMessage of a message without 'from': msg.from.id throws in the try
\* and again in the arguments of the catch's Logger.error.
handleMessageWithoutSender(p) ==
    /\ Free(p)
    /\ h' = [h EXCEPT ![p] = Exit("malformed")]
    /\ script' = 0
    /\ UNCHANGED <<users, memoryUsers, now, storageVars, telegrafVars>>

\* handleCallbackQuery of a callback without 'message':
\* callbackQuery.message.chat.id throws outside any try.
handleCallbackQueryWithoutMessage(p) ==
    /\ Free(p)
    /\ h' = [h EXCEPT ![p] = Exit("malformed")]
    /\ script' = 0
    /\ UNCHANGED <<users, memoryUsers, now, storageVars, telegrafVars>>

\* handleCallbackQuery of a callback without 'from', up to its first await.
handleCallbackQueryWithoutSender(p) ==
    /\ Free(p)
    /\ \E data \in CallbackData :
        h' = [h EXCEPT ![p] = [Idle EXCEPT !.pc = "cbNoSender",
                                           !.uid = NoSender, !.data = data]]
    /\ script' = 0
    /\ UNCHANGED <<users, memoryUsers, now, storageVars, telegrafVars>>

\* catch (error) of handleRoleSelection and handleRegistrationCompletion:
\* Logger.error and answerCallbackQuery with the text of an alert.
Alert(hp, op) ==
    [Idle EXCEPT !.pc = "done", !.op = op, !.uid = hp.uid,
                 !.result = "failed", !.sent = "alert",
                 !.logged = "handler_error", !.attempts = 1]

\* The routing of a callback without 'from': callbackQuery.from.id throws
\* inside the try of the two registration handlers.
routeCallbackWithoutSender(hp) ==
    IF hp.data.prefix = "role_"
    THEN Alert(hp, "role")
    ELSE IF hp.data.rest = "complete_registration"
    THEN Alert(hp, "complete")
    ELSE IF hp.data.rest = "start_registration"
    THEN [hp EXCEPT !.pc = "find", !.op = "start", !.uid = BotSender]
    ELSE Answer(hp, "button")

RouteCallbackWithoutSender(p) ==
    /\ h[p].pc = "cbNoSender"
    /\ h' = [h EXCEPT ![p] = routeCallbackWithoutSender(h[p])]
    /\ UNCHANGED <<users, script, memoryUsers, now, storageVars, telegrafVars>>

\* Bodies of POST /webhook: JSON that does not parse, no object, an update.
Bodies == {"malformed_json", "not_object", "update"}

\* The response of the endpoint, sent once with res.status(code).json(...).
Respond(code, logged) ==
    [Idle EXCEPT !.pc = "done", !.op = "webhook", !.result = code,
                 !.logged = logged]

\* POST /webhook: express.json() hands a body that does not parse to the
\* error handler (500); handleWebhook answers a body that is no object
\* with 400 and awaits bot.handleUpdate(update) otherwise.
handleWebhook(p) ==
    /\ Free(p)
    /\ \E body \in Bodies :
        h' = [h EXCEPT ![p] =
                 CASE body = "malformed_json" -> Respond("500", "webhook_error")
                   [] body = "not_object" -> Respond("400", "invalid_update")
                   [] OTHER -> [Idle EXCEPT !.pc = "handleUpdate",
                                            !.op = "webhook"]]
    /\ script' = 0
    /\ UNCHANGED <<users, memoryUsers, now, storageVars, telegrafVars>>

\* await this.bot.handleUpdate(update) resolves, or rejects into the catch:
\* 200 either way.
handleUpdateSettles(p) ==
    /\ h[p].pc = "handleUpdate"
    /\ \E resolved \in BOOLEAN :
        h' = [h EXCEPT ![p] =
                 IF resolved THEN Respond("200", "none")
                 ELSE Respond("200", "webhook_error")]
    /\ UNCHANGED <<users, script, memoryUsers, now, storageVars, telegrafVars>>

NextBotFault ==
    /\ Running
    /\ \/ NextBot
       \/ \E p \in Procs :
            \/ readIsInRegistrationFails(p)
            \/ RouteMessageFails(p)
            \/ handleMessageWithoutSender(p)
            \/ handleCallbackQueryWithoutMessage(p)
            \/ handleCallbackQueryWithoutSender(p)
            \/ RouteCallbackWithoutSender(p)
            \/ handleWebhook(p)
            \/ handleUpdateSettles(p)

\* The bot with a failing store, malformed updates and the webhook.
SpecBotFault == InitBot /\ [][NextBotFault]_vars

(***************************************************************************)
(* Properties of the registration operations.                              *)
(***************************************************************************)
\* Position of a state in the order of progress.
Rank(state) == CHOOSE i \in 1..Len(states) : states[i] = state

\* The state an operation starts from.
Source(op) == states[Rank(Target(op)) - 1]

\* Process p writes a loaded document back in this step.
Writes(p) == h[p].pc = "save" /\ h'[p].pc = "done"

\* Process p gets its findOne answered in this step.
Reads(p) == h[p].pc = "find" /\ h'[p].pc # "find"

\* C1 (idempotence): a delivery applies its transition only to a record that
\* is still in the state X it read; of two deliveries of the same input for
\* X, the second finds the state changed and writes nothing. Stated on the
\* write: whenever a registration operation saves, the stored record is in
\* the state the operation loaded.
C1_WriteOnlyInExpectedState ==
    [][\A p \in Procs :
        (Writes(p) /\ h[p].op \in TransitionOps) =>
            \A d \in users :
                d.id = h[p].loaded.id =>
                    d.registrationState = h[p].loaded.registrationState]_vars

\* C2 (silent drop): an input for a state the record has already left is
\* dropped without any outbound message and without a write.
C2_StaleInputSendsNothing ==
    [][\A p \in Procs :
        (/\ Reads(p)
         /\ h[p].op \in TransitionOps
         /\ \E d \in Found(h[p].uid) :
                Rank(d.registrationState) > Rank(Source(h[p].op)))
        => (h'[p].pc = "done" /\ h'[p].sent = "none" /\ users' = users)]_vars

\* C3 (no skipping): no write moves the stored registrationState two or
\* more steps ahead of the value stored immediately before it.
C3_NoWriteSkipsAState ==
    [][\A d \in users : \A e \in users' :
        d.id = e.id =>
            Rank(e.registrationState) <= Rank(d.registrationState) + 1]_vars

\* C4 (monotonic progress): under the five registration operations the
\* stored registrationState never moves to an earlier state.
C4_StateNeverMovesBack ==
    [][\A d \in users : \A e \in users' :
        d.id = e.id =>
            Rank(e.registrationState) >= Rank(d.registrationState)]_vars

\* C5: in every reachable state of every record, isRegistered is true if and
\* only if registrationState is completed.
C5_RegisteredIffCompleted ==
    \A d \in users : d.isRegistered <=> (d.registrationState = "completed")

\* The validation rule of the state an operation starts from fails.
FailsValidation(op, text, data) ==
    CASE op = "phone" -> ~isValidPhoneNumber(cleanPhoneNumber(text))
      [] op = "name" -> Len(trim(text)) < 2
      [] op = "role" -> data.rest \notin Roles
      [] OTHER -> FALSE

\* C6 (validation purity): for a sender in state X, an input that fails X's
\* validation rule causes no write: the operation ends at once with a
\* validation error, no save is pending and the collection is unchanged.
C6_InvalidInputWritesNothing ==
    [][\A p \in Procs :
        (/\ Reads(p)
         /\ h[p].op \in {"phone", "name", "role"}
         /\ \E d \in Found(h[p].uid) :
                d.registrationState = Source(h[p].op)
         /\ FailsValidation(h[p].op, h[p].text, h[p].data))
        => (/\ h'[p].pc = "done"
            /\ h'[p].result = "invalid_input"
            /\ users' = users)]_vars

\* An invalid input was rejected while the record stayed as it was.
C6_Witness ==
    \E p \in Procs :
        /\ h[p].pc = "done"
        /\ h[p].op \in {"phone", "name", "role"}
        /\ h[p].result = "invalid_input"

\* C8 (concurrent first contact): a sender never has two records, and once
\* a first-contact handler has finished the sender has exactly one.
C8_OneRecordPerSender ==
    \A uid \in Senders :
        /\ Cardinality(Found(uid)) <= 1
        /\ (\E p \in Procs : /\ h[p].pc = "done"
                             /\ h[p].op \in {"start", "ensure"}
                             /\ h[p].uid = uid)
           => Cardinality(Found(uid)) = 1

\* Two first-contact handlers raced: one created the record, the other's
\* insert was rejected by the unique index.
C8_Witness ==
    \E p, q \in Procs :
        /\ h[p].pc = "done" /\ h[p].op \in {"start", "ensure"}
        /\ h[p].result = "ok"
        /\ h[q].pc = "done" /\ h[q].op \in {"start", "ensure"}
        /\ h[q].result = "error"
        /\ h[p].uid = h[q].uid

(***************************************************************************)
(* Properties of the dispatcher.                                           *)
(***************************************************************************)
\* Process p is routed to its handler in this step.
Routed(p) == h[p].pc \in {"curState", "cb"} /\ h'[p].pc # h[p].pc

\* C7 (terminal idempotence): an event of a sender whose registrationState
\* is completed is never routed into one of the five registration
\* operations.
C7_CompletedNeverEntersMachine ==
    [][\A p \in Procs :
        (/\ Routed(p)
         /\ \E d \in Found(h[p].uid) : d.registrationState = "completed")
        => h'[p].op \notin TransitionOps]_vars

\* C9 (dispatcher routing): a text of a sender whose stored registrationState
\* is not completed is routed into the registration flow, and only a text of
\* a sender in completed is routed to ordinary command handling.
C9_TextRoutedByCompleted ==
    [][\A p \in Procs :
        (h[p].pc = "curState" /\ h'[p].pc # "curState") =>
            \A d \in Found(h[p].uid) :
                (d.registrationState # "completed")
                    <=> (h'[p].op \in {"phone", "name", "registration_hint"})]_vars

\* C10 (end to end): after each event of the scenario has been handled, the
\* record is in the next state of the order and holds the answers submitted
\* so far; after the last one it is completed and registered.
C10_EndToEnd ==
    (Quiet /\ script >= 1) =>
        \A uid \in Senders : \E d \in Found(uid) :
            /\ d.registrationState = states[script + 1]
            /\ d.phoneNumber = cleanPhoneNumber(TextPhone)
            /\ script >= 2 => d.userFullName = trim(TextPhone)
            /\ script >= 3 => d.role = "investor"
            /\ d.isRegistered <=> (script = Len(ScriptEvents))

\* Process p finishes the handling of its input in this step.
Finishes(p) == h[p].pc # "done" /\ h'[p].pc = "done"

\* C11: an input (text or callback) of a sender whose record is in
\* role_selected advances the record to agenda_viewed: when the handling of
\* the input ends, the record that was in role_selected is in agenda_viewed.
C11_RoleSelectedInputAdvances ==
    [][\A p \in Procs :
        (/\ Finishes(p)
         /\ \E d \in Found(h'[p].uid) : d.registrationState = "role_selected")
        => \E e \in users' :
               /\ e.telegramId = h'[p].uid
               /\ e.registrationState = "agenda_viewed"]_vars

(***************************************************************************)
(* Properties of the prompts and of the records' creation.                 *)
(***************************************************************************)
\* C12 (prompt for the new state): the prompt a successful transition
\* returns is the prompt of the new state alone and carries the choices of
\* that state's input: entering name_entered offers the three roles,
\* entering agenda_viewed offers the completion confirmation.
C12_PromptCarriesChoices ==
    \A p \in Procs :
        (h[p].pc = "done" /\ h[p].op \in TransitionOps /\ h[p].result = "ok")
        => /\ h[p].prompt = StatePrompt(Target(h[p].op))
           /\ h[p].op = "name" =>
                  h[p].prompt.keyboard =
                      {[prefix |-> "role_", rest |-> r] : r \in Roles}
           /\ h[p].op = "agenda" =>
                  h[p].prompt.keyboard =
                      {[prefix |-> "", rest |-> "complete_registration"]}

\* C13 (getOrCreate): startRegistration, at the step that decides it. When
\* the sender has no record as the new document is saved, exactly one record
\* is created, in not_started and not registered. When the read finds a
\* record, nothing is created, the collection is unchanged and the prompt
\* returned is that of the stored state.
C13_GetOrCreate ==
    [][\A p \in Procs :
        (Finishes(p) /\ h[p].op = "start" /\ h[p].pc \in {"find", "insert"})
        => IF Found(h[p].uid) = {}
           THEN /\ h[p].pc = "insert"
                /\ h'[p].result = "ok"
                /\ \E d \in users' \ users :
                       /\ users' = users \cup {d}
                       /\ d.telegramId = h[p].uid
                       /\ d.registrationState = "not_started"
                       /\ d.isRegistered = FALSE
           ELSE /\ users' = users
                /\ h[p].pc = "find" =>
                       /\ h'[p].result = "ok"
                       /\ \E d \in Found(h[p].uid) :
                              h'[p].prompt = StatePrompt(d.registrationState)]_vars

\* startRegistration returned the prompt of a record that had moved on.
C13_Witness ==
    \E p \in Procs :
        /\ h[p].pc = "done" /\ h[p].op = "start" /\ h[p].result = "ok"
        /\ h[p].prompt = StatePrompt("phone_entered")
        /\ \E d \in Found(h[p].uid) : d.registrationState = "phone_entered"

\* C15 (missing record is re-seeded): no registration input ends with the
\* sender unknown: when its handling is over the sender has a record and the
\* input was not rejected for the lack of one.
C15_MissingRecordReseeded ==
    \A p \in Procs :
        (h[p].pc = "done" /\ h[p].op \in TransitionOps)
        => /\ Found(h[p].uid) # {}
           /\ h[p].result # "not_found"

(***************************************************************************)
(* Properties under failures of the store and of the Bot API.              *)
(***************************************************************************)
\* The answer an operation stores, in document d.
AnswerOf(op, d) ==
    CASE op = "phone" -> d.phoneNumber
      [] op = "name" -> d.userFullName
      [] op = "role" -> d.role
      [] OTHER -> NoText

\* C18 (no rollback on delivery failure): when the send of the prompt fails
\* after a transition was saved, the record holds the state and the answer
\* the operation saved (the answer it assigned, where that differs from the
\* one it loaded), and that is what a read of the record yields.
C18_NoRollbackOnDeliveryFailure ==
    [][\A p \in Procs :
        (Writes(p) /\ h[p].op \in TransitionOps /\ h'[p].sendError # "none")
        => \E d \in users' :
               /\ d.id = h[p].loaded.id
               /\ d.registrationState = Target(h[p].op)
               /\ AnswerOf(h[p].op, h[p].local) # AnswerOf(h[p].op, h[p].loaded)
                      => AnswerOf(h[p].op, d) = AnswerOf(h[p].op, h[p].local)]_vars

\* A transition was saved, its prompt was not delivered, and the record is
\* in the state the transition leads to.
C18_Witness ==
    \E p \in Procs :
        /\ h[p].pc = "done" /\ h[p].op \in TransitionOps
        /\ h[p].result = "ok" /\ h[p].sendError # "none"
        /\ \E d \in Found(h[p].uid) : d.registrationState = Target(h[p].op)

\* C19 (retry policy): a send rejected with a transient error is retried,
\* in at most 3 attempts in total; a send rejected with a non-transient
\* error is attempted exactly once.
C19_TransientSendIsRetried ==
    \A p \in Procs :
        /\ h[p].sendError = "transient" =>
               (h[p].attempts > 1 /\ h[p].attempts <= 3)
        /\ h[p].sendError = "permanent" => h[p].attempts = 1

\* Results an operation returns: success, or one of its errors.
Results == {"ok", "not_found", "invalid_transition", "invalid_input",
            "error", "failed"}

\* C20 (errors never escape the state machine): whatever the input, the
\* stored state and the failure of the store, an operation ends by returning
\* a result, success or error, and never throws to its caller.
C20_OperationsNeverThrow ==
    \A p \in Procs :
        h[p].op \in TransitionOps \cup {"start"} =>
            /\ h[p].pc # "thrown"
            /\ h[p].pc = "done" => h[p].result \in Results

\* The store failed under an operation, which returned an error.
C20_Witness ==
    \E p \in Procs :
        /\ h[p].pc = "done" /\ h[p].op \in TransitionOps \cup {"start"}
        /\ h[p].result = "failed" /\ h[p].logged = "operation_error"

(***************************************************************************)
(* Properties of the bot under failures.                                   *)
(***************************************************************************)
\* C14 (ledger unavailable): when the read of the sender's record fails in
\* the dispatcher, the handling ends with a service-unavailable error and
\* the update is routed to no handler from a guessed state.
C14_StoreFailureIsSurfaced ==
    [][\A p \in Procs :
        (readIsInRegistrationFails(p) \/ RouteMessageFails(p))
        => /\ h'[p].pc = "done"
           /\ h'[p].result = "service_unavailable"]_vars

\* The update handled by hp lacks its sender or its message.
Malformed(hp) == hp.op = "malformed" \/ hp.uid = NoSender

\* C16 (malformed events are dropped without harm): an update without
\* sender, or a callback without message, sends nothing out and does not end
\* the process.
C16_MalformedEventIsDropped ==
    \A p \in Procs :
        (h[p].pc # "idle" /\ Malformed(h[p]))
        => /\ h[p].pc # "exit"
           /\ h[p].sent = "none"

\* C17 (webhook acknowledgement): every POST to the webhook endpoint is
\* answered with 200, whatever its body and whether the processing of the
\* update succeeds or throws.
C17_WebhookAlwaysAnswers200 ==
    \A p \in Procs :
        (h[p].pc = "done" /\ h[p].op = "webhook") => h[p].result = "200"

(***************************************************************************)
(* Properties of the inputs' rules.                                        *)
(***************************************************************************)
DigitChars == {"0", "1", "2", "3", "4", "5", "6", "7", "8", "9"}

\* s without the characters that are neither a digit nor a '+'.
RECURSIVE StripToDigitsAndPlus(_)
StripToDigitsAndPlus(s) ==
    IF s = << >> THEN << >>
    ELSE (IF Head(s) \in DigitChars \cup {"+"} THEN <<Head(s)>> ELSE << >>)
         \o StripToDigitsAndPlus(Tail(s))

\* s without the characters that are neither a digit nor a leading '+'.
StripToDigitsAndLeadingPlus(s) ==
    LET t == StripToDigitsAndPlus(s) IN
    IF t = << >> THEN t
    ELSE <<Head(t)>> \o SelectSeq(Tail(t), LAMBDA c : c # "+")

\* '+', a digit 1-9, then 1 to 14 more digits.
PlusThenDigits(c) ==
    /\ Len(c) - 2 \in 1..14
    /\ c[1] = "+"
    /\ c[2] \in DigitChars \ {"0"}
    /\ \A i \in 3..Len(c) : c[i] \in DigitChars

\* Process p reads a record that is in state for its operation op.
ReadsIn(p, op, state) ==
    /\ Reads(p)
    /\ h[p].op = op
    /\ \E d \in Found(h[p].uid) : d.registrationState = state

\* The record process p writes, as stored after the write.
Written(p) == {d \in users' : d.id = h[p].loaded.id}

\* C21 as claimed (phone format, only a leading '+' kept): a phone input in
\* not_started is accepted if and only if the text without the characters
\* that are neither digits nor a leading '+' is '+', a digit 1-9 and 1 to 14
\* more digits, and that cleaned string is what is stored.
C21_PhoneFormatLeadingPlus ==
    [][\A p \in Procs :
        /\ ReadsIn(p, "phone", "not_started") =>
               LET c == StripToDigitsAndLeadingPlus(h[p].text) IN
               /\ h'[p].pc = "save" <=> PlusThenDigits(c)
               /\ h'[p].pc = "save" => h'[p].local.phoneNumber = c
        /\ (Writes(p) /\ h[p].op = "phone") =>
               \A d \in Written(p) :
                   d.phoneNumber = h[p].local.phoneNumber]_vars

\* C21 as amended (phone format, every '+' kept): a phone input in
\* not_started is accepted if and only if the text without the characters
\* that are neither digits nor '+' is '+', a digit 1-9 and 1 to 14 more
\* digits, and that cleaned string is what is stored.
C21_PhoneFormat ==
    [][\A p \in Procs :
        /\ ReadsIn(p, "phone", "not_started") =>
               LET c == StripToDigitsAndPlus(h[p].text) IN
               /\ h'[p].pc = "save" <=> PlusThenDigits(c)
               /\ h'[p].pc = "save" => h'[p].local.phoneNumber = c
        /\ (Writes(p) /\ h[p].op = "phone") =>
               \A d \in Written(p) :
                   /\ d.phoneNumber = h[p].local.phoneNumber
                   /\ d.registrationState = "phone_entered"]_vars

\* '+1 (234) 567-8901' was accepted and is stored as '+12345678901'.
C21_Witness ==
    \E d \in users :
        /\ d.registrationState = "phone_entered"
        /\ d.phoneNumber =
               <<"+", "1", "2", "3", "4", "5", "6", "7", "8", "9", "0", "1">>

\* s without the whitespace around it.
Trimmed(s) ==
    LET inner == {i \in 1..Len(s) : s[i] \notin {" ", "\t", "\n"}} IN
    IF inner = {} THEN << >>
    ELSE SubSeq(s, CHOOSE i \in inner : \A j \in inner : i <= j,
                   CHOOSE i \in inner : \A j \in inner : i >= j)

\* C22 (full name rule): a full-name input in phone_entered is accepted if
\* and only if its length after trimming is at least 2; on acceptance the
\* stored full name is the trimmed input and the state becomes name_entered.
C22_FullNameRule ==
    [][\A p \in Procs :
        /\ ReadsIn(p, "name", "phone_entered") =>
               /\ h'[p].pc = "save" <=> Len(Trimmed(h[p].text)) >= 2
               /\ h'[p].pc = "save" =>
                      h'[p].local.userFullName = Trimmed(h[p].text)
        /\ (Writes(p) /\ h[p].op = "name") =>
               \A d \in Written(p) :
                   /\ d.userFullName = h[p].local.userFullName
                   /\ d.registrationState = "name_entered"]_vars

\* A name with whitespace around and inside it was stored trimmed.
C22_Witness ==
    \E d \in users :
        /\ d.registrationState = "name_entered"
        /\ d.userFullName = <<"a", " ", "a">>

(***************************************************************************)
(* Properties of the records.                                              *)
(***************************************************************************)
\* C23 (role invariant): the stored role of every record is unset or one of
\* buyer, investor, both; no step of a role callback whose payload is
\* anything else changes a record.
C23_RoleInvariant ==
    [][/\ \A d \in users' : d.role \in {NoRole, "buyer", "investor", "both"}
       /\ \A p \in Procs :
              (/\ h[p].op = "role"
               /\ h[p].data.rest \notin {"buyer", "investor", "both"}
               /\ h'[p] # h[p]) => users' = users]_vars

\* A role callback with another payload reached a record that waits for the
\* role, and was refused.
C23_Witness ==
    \E p \in Procs :
        /\ h[p].pc = "done"
        /\ h[p].op = "role"
        /\ h[p].data.rest \notin {"buyer", "investor", "both"}
        /\ h[p].result = "invalid_input"
        /\ \E d \in users : d.role = NoRole

\* The records of the senders other than uid.
RecordsOfOthers(us, uid) == {d \in us : d.telegramId # uid}

\* C24 (sender isolation): no step of a handler that handles an event of one
\* sender loads the record of another account or changes it.
C24_SenderIsolation ==
    [][\A p \in Procs :
        (h[p].from # 0 /\ h'[p] # h[p]) =>
            /\ RecordsOfOthers(users', h[p].from) =
                   RecordsOfOthers(users, h[p].from)
            /\ h'[p].loaded # NoDoc => h'[p].loaded.telegramId = h[p].from
            /\ h'[p].local # NoDoc => h'[p].local.telegramId = h[p].from]_vars

\* The state and the answers of the records of sender uid among us.
Progress(us, uid) ==
    {<<d.registrationState, d.phoneNumber, d.userFullName, d.role>> :
        d \in {e \in us : e.telegramId = uid}}

\* C25 (/register continues registration): while the bot handles the
\* message '/register' of a sender that has a record, the state, the phone
\* number, the full name and the role of the record stay as they are, and
\* the reply is the prompt of the record's state.
C25_RegisterContinues ==
    [][\A p \in Procs :
        (/\ h[p].text = TextRegister
         /\ h[p].from # 0
         /\ h'[p] # h[p]
         /\ Found(h[p].from) # {}) =>
            /\ Progress(users', h[p].from) = Progress(users, h[p].from)
            /\ h'[p].pc = "done" =>
                   \E d \in Found(h[p].from) :
                       /\ h'[p].sent = "prompt"
                       /\ h'[p].prompt = StatePrompt(d.registrationState)]_vars

(***************************************************************************)
(* Properties of the in-memory store.                                      *)
(***************************************************************************)
\* C26 (memory cleanup): a run of the cleanup removes from memory exactly
\* the users last seen more than 7 days before the run, leaves the other
\* users as they are and deletes no persisted record.
C26_MemoryCleanup ==
    [][cleanupInactiveUsers =>
        /\ DOMAIN memoryUsers' =
               {uid \in DOMAIN memoryUsers : ~(memoryUsers[uid].lastSeen + 7 < now)}
        /\ \A uid \in DOMAIN memoryUsers' : memoryUsers'[uid] = memoryUsers[uid]
        /\ users' = users]_vars

\* A user with a persisted record has been removed from memory, and a user
\* last seen exactly 7 days ago is still there.
C26_Witness ==
    /\ \E d \in users : d.telegramId \notin DOMAIN memoryUsers
    /\ \E uid \in DOMAIN memoryUsers : memoryUsers[uid].lastSeen + 7 = now

(***************************************************************************)
(* Properties of the dispatcher's keys and of what it persists.            *)
(***************************************************************************)
\* C27 (start_registration callback): the registration start that a
\* 'start_registration' callback query triggers is keyed by the sender of
\* the callback query.
C27_StartKeyedByCallbackSender ==
    [][\A p \in Procs :
        (/\ h[p].pc = "cb"
         /\ h[p].data = [prefix |-> "", rest |-> "start_registration"]
         /\ h'[p] # h[p]) =>
            /\ h'[p].op = "start"
            /\ h'[p].uid = h[p].from]_vars

\* C28 (answers match progress): a record at or past phone_entered has a
\* phone number, a record at or past name_entered has a full name, and a
\* record at or past role_selected has a role.
C28_AnswersMatchProgress ==
    \A d \in users :
        /\ Rank(d.registrationState) >= Rank("phone_entered") =>
               d.phoneNumber # NoText
        /\ Rank(d.registrationState) >= Rank("name_entered") =>
               d.userFullName # NoText
        /\ Rank(d.registrationState) >= Rank("role_selected") =>
               d.role # NoRole

\* The registration fields of every record are after a step what they were
\* before it.
RegistrationKept ==
    \A d \in users :
        \E e \in users' :
            /\ e.id = d.id
            /\ e.registrationState = d.registrationState
            /\ e.isRegistered = d.isRegistered
            /\ e.phoneNumber = d.phoneNumber
            /\ e.userFullName = d.userFullName
            /\ e.role = d.role

\* C29 (user sync preserves registration): neither the sync of the sender
\* that runs on every message nor the periodic sync of the users in memory
\* changes registrationState, isRegistered, phoneNumber, userFullName or
\* role of a record that exists.
C29_SyncKeepsRegistration ==
    [][(startSyncInterval \/ \E p \in Procs : syncUserToMongoDB(p))
        => RegistrationKept]_vars

\* The sync of a message has just run for a sender whose record holds a
\* phone number, a full name and a role.
C29_Witness ==
    \E p \in Procs :
        /\ h[p].pc = "isInReg"
        /\ \E d \in Found(h[p].uid) :
               /\ d.registrationState = "role_selected"
               /\ d.role # NoRole

\* C30 (/start tells registered from unregistered): the reply to '/start'
\* is the 'welcome back' message if and only if the sender's record is
\* completed and registered, and the invitation to register otherwise.
C30_StartTellsRegistered ==
    [][\A p \in Procs :
        (/\ h[p].pc = "curState"
         /\ h[p].text = TextStart
         /\ h'[p].op = "sendStartMessage") =>
            IF \E d \in Found(h[p].from) :
                   d.registrationState = "completed" /\ d.isRegistered
            THEN h'[p].sent = "welcome_back"
            ELSE h'[p].sent = "invitation"]_vars

\* C31 (memory statistics): once the operations of MemoryStorage have run
\* to completion, stats.totalUsers is at least stats.activeUsers, and
\* stats.activeUsers is the number of users held in memory.
C31_StatsCountUsers ==
    /\ stats.totalUsers >= stats.activeUsers
    /\ stats.activeUsers = Cardinality(DOMAIN memoryUsers)

\* C32 (one sync pass at a time): at most one pass of the periodic sync is
\* in progress; a pass starts only when none is running and the database is
\* connected; when a pass ends, normally or with an error, syncInProgress is
\* false, and it is true only while a pass is running.
C32_OneSyncPass ==
    [][/\ Len(syncPasses') <= 1
       /\ Len(syncPasses') > Len(syncPasses) =>
              (~syncInProgress /\ isConnected)
       /\ Len(syncPasses') < Len(syncPasses) => ~syncInProgress'
       /\ syncInProgress' => Len(syncPasses') = 1]_vars

\* A pass ended with an error and a later tick has started a new pass.
C32_Witness ==
    /\ syncLogged = "sync_error"
    /\ syncInProgress
    /\ Len(syncPasses) = 1

(***************************************************************************)
(* Properties of the Telegraf bot's middleware.                            *)
(***************************************************************************)
\* The number of updates of user uid forwarded, according to fwd, in the
\* window that ends at t: the times after t - windowMs up to t.
ForwardedInWindow(fwd, uid, t) ==
    Cardinality({i \in DOMAIN fwd[uid] :
                    fwd[uid][i] > t - windowMs /\ fwd[uid][i] <= t})

\* C33 (rate limiting): for each user, no window of length windowMs holds
\* more than maxRequests forwarded updates; an update is rejected only when
\* the window that ends with it holds maxRequests forwarded updates, and a
\* rejected update leaves the recorded requests as they are.
C33_RateLimit ==
    [][\A uid \in DOMAIN forwarded :
        /\ \A t \in 0..now' : ForwardedInWindow(forwarded', uid, t) <= maxRequests
        /\ lastRejected'[uid] # lastRejected[uid] =>
               /\ ForwardedInWindow(forwarded, uid, now) >= maxRequests
               /\ requests' = requests
               /\ forwarded' = forwarded]_vars

\* A user was turned away at the limit and was forwarded again as soon as
\* the window had room; the other user was not held up meanwhile.
C33_Witness ==
    \E uid \in DOMAIN forwarded :
        /\ Len(forwarded[uid]) > maxRequests
        /\ lastRejected[uid] >= 0
        /\ forwarded[uid][Len(forwarded[uid])] > lastRejected[uid]
        /\ forwarded[uid][Len(forwarded[uid])] = forwarded[uid][1] + windowMs

\* The active conversations of sender uid among cs.
ActiveOf(cs, uid) == {c \in cs : c.telegramId = uid /\ c.isActive}

\* Process p ends the handling of its update.
Ends(p) == ctx[p].pc # "done" /\ ctx'[p].pc = "done"

\* C34 (profile setup dialogue): once the handling of the 'Complete Profile'
\* button ends, the sender's conversation is in profile_setup at step 1; a
\* text handled in profile_setup moves the step on by exactly one, 'skip'
\* stores nothing in the profile, and a conversation past the fourth step is
\* idle when the handling ends.
C34_ProfileSetupDialogue ==
    [][\A p \in Procs :
        /\ (Ends(p) /\ ctx[p].updateType = "callback_query") =>
               \E c \in ActiveOf(conversations', ctx[p].from) :
                   c.state = "profile_setup" /\ c.step = 1
        /\ (ctx'[p] # ctx[p] /\ ctx[p].updateType = "message") =>
               /\ \A c \in conversations : \A d \in conversations' :
                      (c.id = d.id /\ d.step # c.step) => d.step = c.step + 1
               /\ toLowerCase(trim(ctx[p].text)) = <<"s", "k", "i", "p">> =>
                      profile' = profile
        /\ (Ends(p) /\ ctx[p].updateType = "message") =>
               \A c \in ActiveOf(conversations', ctx[p].from) :
                   c.step > 4 => c.state = "idle"]_vars

\* C35 (one active conversation): no sender has two conversation records
\* with isActive true.
C35_OneActiveConversation ==
    \A uid \in Senders : Cardinality(ActiveOf(conversations, uid)) <= 1

====
